---- MODULE Spec2Model ----
(***************************************************************************)
(* cargo-bisect-rustc, src/main.rs: the outcome classifier, the bound      *)
(* validation, the nightly finder iterator and the two-phase bisection     *)
(* driver (run, Config::from_args, Config::bisect, bisect_nightlies,       *)
(* bisect_ci_via, bisect_ci_in_commits, print_results).                    *)
(*                                                                         *)
(* Dates are day numbers counted from 2015-10-20 (day 0), the date before  *)
(* which no -std packages exist.  A toolchain is <<"nightly", date>> or    *)
(* <<"ci", sha>>.  Strings that the code inspects (commit or tag names)    *)
(* are sequences of characters.                                            *)
(***************************************************************************)
EXTENDS Integers, Sequences, FiniteSets, TLC

\* ------------------------------------------------------------------ bounds
Today == 10           \* the current UTC day of the modelled runs
MaxCommits == 3       \* longest commit list the repository accessor returns
MaxLen == 6           \* longest sequence of the stand-alone bisector runs
MaxStderr == 2        \* longest stderr (in chunks) of the classifier runs
MaxIterSteps == 20    \* calls of NightlyFinderIter::next that are followed

\* ------------------------------------------------------- program constants
EndAt == 0            \* 2015-10-20, bisect_nightlies' end_at
RetentionDays == 167  \* bisect_ci_in_commits' retention window
TestStartDate == 1169 \* 2019-01-01, the start date of test_nightly_finder_iterator

\* Option<T>: None is the empty sequence, Some(x) the sequence holding x
Nil == <<>>

Some(x) == <<x>>

Get(o) == o[1]

IceMarker == "error: internal compiler error"
OverflowMarker == "' has overflowed its stack"
EPOCH_COMMIT == <<"9", "2", "7", "c">>
OriginMaster == <<"o", "r", "i", "g", "i", "n", "/", "m", "a", "s", "t", "e", "r">>

VARIABLES
    \* Config::default_outcome_of_output: its inputs and its result
    regress, success, stderr, outcome,
    \* Opts / Config
    pc, today, optStart, optEnd, start, end, by_commit, install, alt,
    is_commit, exit, err,
    \* bisect_nightlies
    nightly_date, last_failure, first_success, has_start,
    iter_start, iter_cur, iter_n, iter_ret,
    \* least_satisfying / BisectionResult
    phase, toolchains, lo, hi, tried, best, retry, idx, found, kstar,
    \* install_and_test
    stage, tc, verdict,
    \* bisect_ci_via
    ci_start, ci_end, nightly_boundary,
    \* history
    lastNoTc, lastYesTc, everNightly, everCi,
    \* Opts::preserve
    preserve,
    \* bisect_ci_in_commits' commits, what print_results wrote, the toolchains
    \* of the run in the toolchains directory, the lookups of fixup_bounds
    commits, printed, onDisk, asked,
    \* remove_toolchain: what fs::symlink_metadata answered in the last probe
    meta,
    \* print_final_report was called
    final_report

classVars == <<regress, success, stderr, outcome>>
optVars == <<today, optStart, optEnd, by_commit, install, alt, preserve>>
cfgVars == <<start, end, is_commit>>
endVars == <<pc, exit, err>>
scanVars == <<nightly_date, last_failure, first_success, has_start>>
iterVars == <<iter_start, iter_cur, iter_n, iter_ret>>
bisVars == <<phase, toolchains, lo, hi, tried, best, retry, idx, found, kstar>>
probeVars == <<stage, tc, verdict>>
ciVars == <<ci_start, ci_end, nightly_boundary>>
histVars == <<lastNoTc, lastYesTc, everNightly, everCi>>
auxVars == <<commits, printed, onDisk, asked, meta, final_report>>

vars == <<classVars, optVars, cfgVars, endVars, scanVars, iterVars, bisVars,
          probeVars, ciVars, histVars, auxVars>>

\* ------------------------------------------------------------ data model
\* enum Bound, and the absent Option<Bound>
NoBound == [kind |-> "none"]

DateBound(d) == [kind |-> "date", date |-> d]

CommitBound(s) == [kind |-> "commit", sha |-> s]

IsDate(b) == b.kind = "date"

IsCommit(b) == b.kind = "commit"

IsNone(b) == b.kind = "none"

\* str::contains for a single character or a chunk
Contains(s, c) == \E i \in 1..Len(s) : s[i] = c

Nightly(d) == <<"nightly", d>>

Ci(sha) == <<"ci", sha>>

RegressOn == {"ErrorStatus", "SuccessStatus", "IceAlone", "NotIce", "NonCleanError"}

\* ------------------------------------------------- the outcome classifier
saw_ice(err_utf8) == Contains(err_utf8, IceMarker) \/ Contains(err_utf8, OverflowMarker)

default_outcome_of_output_swapped(mode, ok, err_utf8) ==
    CASE (mode = "ErrorStatus" /\ ok) \/ (mode = "SuccessStatus" /\ ~ok) -> "Baseline"
      [] (mode = "ErrorStatus" /\ ~ok)
         \/ (mode \in {"SuccessStatus", "NonCleanError"} /\ ok) -> "Regressed"
      [] mode = "IceAlone" ->
            IF saw_ice(err_utf8) THEN "Regressed" ELSE "Baseline"
      [] mode = "NotIce" \/ (mode = "NonCleanError" /\ ~ok) ->
            IF saw_ice(err_utf8) THEN "Baseline" ELSE "Regressed"

default_outcome_of_output(mode, ok, err_utf8) ==
    CASE (mode = "ErrorStatus" /\ ok) \/ (mode = "SuccessStatus" /\ ~ok) -> "Baseline"
      [] (mode = "ErrorStatus" /\ ~ok)
         \/ (mode \in {"SuccessStatus", "NonCleanError"} /\ ok) -> "Regressed"
      [] mode = "IceAlone" \/ (mode = "NonCleanError" /\ ~ok) ->
            IF saw_ice(err_utf8) THEN "Regressed" ELSE "Baseline"
      [] mode = "NotIce" ->
            IF saw_ice(err_utf8) THEN "Baseline" ELSE "Regressed"

\* ------------------------------------------------------- bound validation
check_bounds_no_future_end(s, e, current) ==
    IF IsNone(s) \/ IsNone(e) THEN "ok"
    ELSE IF IsDate(s) /\ IsDate(e) /\ e.date < s.date THEN "end_before_start"
    ELSE IF IsDate(s) /\ s.date > current THEN "start_in_future"
    ELSE "ok"

\* "ok", or the message check_bounds bails with
check_bounds(s, e, current) ==
    IF IsNone(s) \/ IsNone(e) THEN "ok"
    ELSE IF IsDate(s) /\ IsDate(e) /\ e.date < s.date THEN "end_before_start"
    ELSE IF IsDate(s) /\ s.date > current THEN "start_in_future"
    ELSE IF IsDate(e) /\ e.date > current THEN "end_in_future"
    ELSE "ok"

\* ------------------------------------------------ the nightly finder iterator
jump_length_weekly_only(current_distance) ==
    IF current_distance < 7 THEN 2 ELSE 7

jump_length(current_distance) ==
    IF current_distance < 7 THEN 2
    ELSE IF current_distance < 49 THEN 7
    ELSE 14

\* NightlyFinderIter::next: the new current_date, which is also Some(item)
NightlyFinderIter_next(start_date, current_date) ==
    current_date - jump_length(start_date - current_date)

\* --------------------------------------------------- values of idle parts
ClassIdle ==
    /\ regress = "ErrorStatus"
    /\ success = TRUE
    /\ stderr = <<>>
    /\ outcome = "none"

OptIdle ==
    /\ optStart = NoBound
    /\ optEnd = NoBound
    /\ by_commit = FALSE
    /\ install = NoBound
    /\ alt = FALSE
    /\ preserve = FALSE

ScanIdle ==
    /\ nightly_date = 0
    /\ last_failure = 0
    /\ first_success = Nil
    /\ has_start = FALSE

IterIdle ==
    /\ iter_start = 0
    /\ iter_cur = 0
    /\ iter_n = 0
    /\ iter_ret = Nil

BisIdle ==
    /\ phase = "none"
    /\ toolchains = <<>>
    /\ lo = 0
    /\ hi = 0
    /\ tried = {}
    /\ best = Nil
    /\ retry = FALSE
    /\ idx = 0
    /\ found = Nil

ProbeIdle ==
    /\ stage = "idle"
    /\ tc = Nil
    /\ verdict = "none"

CiIdle ==
    /\ ci_start = Nil
    /\ ci_end = Nil
    /\ nightly_boundary = Nil

HistIdle ==
    /\ lastNoTc = Nil
    /\ lastYesTc = Nil
    /\ everNightly = FALSE
    /\ everCi = FALSE

AuxIdle ==
    /\ commits = <<>>
    /\ printed = <<>>
    /\ onDisk = {}
    /\ asked = <<>>
    /\ meta = "none"
    /\ final_report = FALSE

\* the run ends with an error (main prints it and exits with status 1)
Fail(msg) ==
    /\ pc' = "done"
    /\ exit' = "error"
    /\ err' = msg

\* the run aborts on a failed assertion, an unwrap of None or unreachable!()
Panic(msg) ==
    /\ pc' = "done"
    /\ exit' = "panic"
    /\ err' = msg

\* ------------------------------------------------------------- classifier runs
StderrChunks == {IceMarker, OverflowMarker, "warning: unused variable"}

StderrTexts == UNION {[1..n -> StderrChunks] : n \in 0..MaxStderr}

InitClassify ==
    /\ regress \in RegressOn
    /\ success \in BOOLEAN
    /\ stderr \in StderrTexts
    /\ outcome = "none"
    /\ pc = "classify"
    /\ exit = "running"
    /\ err = "none"
    /\ today = Today
    /\ start = NoBound
    /\ end = NoBound
    /\ is_commit = FALSE
    /\ kstar = Nil
    /\ OptIdle /\ ScanIdle /\ IterIdle /\ BisIdle /\ ProbeIdle /\ CiIdle /\ HistIdle /\ AuxIdle

Classify ==
    /\ pc = "classify"
    /\ outcome' = default_outcome_of_output(regress, success, stderr)
    /\ pc' = "done"
    /\ exit' = "ok"
    /\ UNCHANGED <<regress, success, stderr, err, optVars, cfgVars, scanVars,
                   iterVars, bisVars, probeVars, ciVars, histVars>>
    /\ UNCHANGED auxVars

SpecClassify == InitClassify /\ [][Classify]_vars

\* ------------------------------------------------------- check_bounds runs
ShaA == <<"6", "a", "1", "c">>

TagA == <<"1", ".", "5", "8", ".", "0">>

BoundsDates == (Today - 3)..(Today + 1)

BoundsChoices == {NoBound, CommitBound(ShaA)} \cup {DateBound(d) : d \in BoundsDates}

InitBounds ==
    /\ today \in {Today - 1, Today}
    /\ start \in BoundsChoices
    /\ end \in BoundsChoices
    /\ optStart = start
    /\ optEnd = end
    /\ by_commit = FALSE
    /\ install = NoBound
    /\ alt = FALSE
    /\ preserve = FALSE
    /\ is_commit = FALSE
    /\ pc = "check_bounds"
    /\ exit = "running"
    /\ err = "none"
    /\ kstar = Nil
    /\ ClassIdle /\ ScanIdle /\ IterIdle /\ BisIdle /\ ProbeIdle /\ CiIdle /\ HistIdle /\ AuxIdle

\* run: check_bounds(&args.start, &args.end)?
CheckBounds ==
    /\ pc = "check_bounds"
    /\ LET r == check_bounds(start, end, today) IN
         IF r = "ok"
         THEN /\ pc' = "from_args"
              /\ UNCHANGED <<exit, err>>
         ELSE Fail(r)
    /\ UNCHANGED <<classVars, optVars, cfgVars, scanVars, iterVars, bisVars,
                   probeVars, ciVars, histVars>>
    /\ UNCHANGED auxVars

SpecBounds == InitBounds /\ [][CheckBounds]_vars

\* ------------------------------------------------ nightly finder iterator runs
IterStarts == {TestStartDate, Today, Today - 1, EndAt + 1, 60, 400}

InitIter ==
    /\ iter_start \in IterStarts
    /\ iter_cur = iter_start
    /\ iter_n = 0
    /\ iter_ret = Nil
    /\ pc = "iter"
    /\ exit = "running"
    /\ err = "none"
    /\ today = Today
    /\ start = NoBound
    /\ end = NoBound
    /\ is_commit = FALSE
    /\ kstar = Nil
    /\ ClassIdle /\ OptIdle /\ ScanIdle /\ BisIdle /\ ProbeIdle /\ CiIdle /\ HistIdle /\ AuxIdle

\* one call of NightlyFinderIter::next
IterNext ==
    /\ pc = "iter"
    /\ iter_n < MaxIterSteps
    /\ iter_cur' = NightlyFinderIter_next(iter_start, iter_cur)
    /\ iter_ret' = Some(iter_cur')
    /\ iter_n' = iter_n + 1
    /\ UNCHANGED <<iter_start, classVars, optVars, cfgVars, endVars, scanVars,
                   bisVars, probeVars, ciVars, histVars>>
    /\ UNCHANGED auxVars

SpecIter == InitIter /\ [][IterNext]_vars

\* ------------------------------------------------- bounds of a bisection
\* fixup_bounds' is_tag closure
is_tag(b) == IsCommit(b) /\ Contains(b.sha, ".")

\* fixup_bounds' is_datelike closure
is_datelike(b) == IsNone(b) \/ IsDate(b) \/ is_tag(b)

fixup_enabled_any(s, e) == is_datelike(s) \/ is_datelike(e)

\* the condition under which fixup_bounds rewrites tags at all
fixup_enabled(s, e) == is_datelike(s) /\ is_datelike(e)

fixup_keep_tag(b, date) == b

\* fixup_bounds' fixup closure; date is what bound_to_date answered
fixup(b, date) == IF is_tag(b) THEN DateBound(date) ELSE b

bound_kinds_date_first(s, e) ==
    IF (IsDate(s) \/ IsDate(e)) THEN "date"
    ELSE IF (IsCommit(s) \/ IsCommit(e)) THEN "commit"
    ELSE "none"

\* Config::from_args' match on (args.start, args.end): Some(true) is
\* "commit", Some(false) is "date", None is "none", and "mixed" is the bail
bound_kinds(s, e) ==
    IF ((IsCommit(s) \/ IsNone(s)) /\ IsCommit(e)) \/ (IsCommit(s) /\ IsNone(e))
    THEN "commit"
    ELSE IF ((IsDate(s) \/ IsNone(s)) /\ IsDate(e)) \/ (IsDate(s) /\ IsNone(e))
    THEN "date"
    ELSE IF IsNone(s) /\ IsNone(e) THEN "none"
    ELSE "mixed"

\* the body of channel-rust-nightly-git-commit-hash.txt of a day
ManifestSha(d) == <<"nightly-commit", ToString(d)>>

\* Bound::sha of a bound that needs no download
CommitSha(b) == b.sha

config_is_commit_kind_only(flag, kinds) == kinds = "commit"

\* Config { is_commit: args.by_commit || is_commit == Some(true), .. }
config_is_commit(flag, kinds) == flag \/ kinds = "commit"

get_end_date(e, dn, current) ==
    IF IsDate(e) THEN e.date
    ELSE IF dn # Nil THEN Get(dn)
    ELSE current

get_start_date_from_end(s, e, dn, current) == get_end_date(e, dn, current)

get_start_date(s, e, dn, current) ==
    IF IsDate(s) THEN s.date ELSE get_end_date(e, dn, current)

date_is_future(test_date, current) == test_date > current

toolchains_between_day_early(a, b) ==
    IF a <= b THEN [i \in 1..(b - a + 2) |-> Nightly(a + i - 2)] ELSE <<>>

\* toolchains_between for two nightlies
toolchains_between(a, b) ==
    IF a <= b THEN [i \in 1..(b - a + 1) |-> Nightly(a + i - 1)] ELSE <<>>

\* install_and_test: the verdict of a test outcome
satisfies(o) == IF o = "Baseline" THEN "No" ELSE "Yes"

unwrap_or_no(v) == IF v = "Yes" THEN "Yes" ELSE "No"

\* bisect_to_regression: install_and_test(..).unwrap_or(Satisfies::Unknown)
unwrap_or_unknown(v) == IF v \in {"Yes", "No"} THEN v ELSE "Unknown"

\* --------------------------------------------- repository accessor answers
\* access.commit(ref).sha
Resolve(ref) == <<"sha-of">> \o ref

StraySha == <<"stray">>

CommitDates == {Today - RetentionDays, Today - RetentionDays + 1}

\* the lists access.commits(start, end_sha) may answer: any dates, and a last
\* commit that is end_sha or is not
CommitLists(end_sha) ==
    UNION {
        { [i \in 1..n |-> [sha |-> IF i = n THEN last ELSE <<"c", ToString(i)>>,
                           date |-> dates[i]]] :
            dates \in [1..n -> CommitDates], last \in {end_sha, StraySha} }
        : n \in 0..MaxCommits }

StartsWith(s, prefix) ==
    Len(prefix) <= Len(s) /\ SubSeq(s, 1, Len(prefix)) = prefix

sorted_by_date_unchecked(cs) == TRUE

sorted_by_date(cs) ==
    \A j \in 1..(Len(cs) - 1) : cs[j].date <= cs[j + 1].date

\* commits.retain(|c| Utc::today() - c.date < Duration::days(167))
retained(cs, current) ==
    SelectSeq(cs, LAMBDA c : current - c.date < RetentionDays)

\* ------------------------------------------------------ least_satisfying
Abs(x) == IF x < 0 THEN -x ELSE x

Midpoint(l, h) == l + ((h - l) \div 2)

\* the indices strictly inside the interval that were not probed yet
Untried(l, h, done) == {j \in (l + 1)..(h - 1) : j \notin done}

\* the index of S nearest to m, the right-hand one of two equally near
Nearest(m, S) ==
    CHOOSE j \in S : \A k \in S :
        Abs(j - m) < Abs(k - m) \/ (Abs(j - m) = Abs(k - m) /\ j >= k)

\* the last observed Yes if any, else lo
BestCandidate(l, b) == IF b # Nil THEN Get(b) ELSE l

\* "return": the interval is down to one index, or every index inside it
\* answered Unknown
BisectorDone(l, h, done, again) ==
    \/ h - l <= 1
    \/ again /\ Untried(l, h, done) = {}

NextProbe(l, h, done, again) ==
    IF again THEN Nearest(Midpoint(l, h), Untried(l, h, done)) ELSE Midpoint(l, h)

narrow_yes_exclusive(h, i) == i

\* Yes at index i: hi = i + 1
narrow_yes(h, i) == i + 1

\* No at index i: lo = i + 1
narrow_no(l, i) == i + 1

\* --------------------------------------------------------- the command line
RunDates == {EndAt, Today - 4, Today, Today + 1}

RunBounds ==
    {NoBound, CommitBound(ShaA), CommitBound(TagA)} \cup {DateBound(d) : d \in RunDates}

InstallChoices == {NoBound, DateBound(Today - 1), CommitBound(ShaA)}

\* the authored dates bound_to_date may answer for a tag
TagDates == {Today - 4, Today}

\* the command lines (start, end, install, alt) that are run with --preserve
PreserveRuns ==
    {<<DateBound(Today - 4), DateBound(Today), NoBound, FALSE>>,
     <<CommitBound(ShaA), NoBound, NoBound, FALSE>>}

Init ==
    /\ today = Today
    /\ optStart \in RunBounds
    /\ optEnd \in RunBounds
    /\ start = optStart
    /\ end = optEnd
    /\ by_commit \in BOOLEAN
    /\ install \in InstallChoices
    /\ alt \in BOOLEAN
    /\ preserve \in BOOLEAN
    /\ preserve => <<optStart, optEnd, install, alt>> \in PreserveRuns
    /\ is_commit = FALSE
    /\ pc = "fixup_bounds"
    /\ exit = "running"
    /\ err = "none"
    /\ kstar = Nil
    /\ ClassIdle /\ ScanIdle /\ IterIdle /\ BisIdle /\ ProbeIdle /\ CiIdle /\ HistIdle /\ AuxIdle

\* ------------------------------------------------------------------- run
\* what access.repo().bound_to_date answers for a bound that is a tag: a
\* date, or an error (Nil); other bounds are not looked up
BoundToDate(b) == IF is_tag(b) THEN {Some(d) : d \in TagDates} \cup {Nil} ELSE {Some(0)}

\* the lookup that fixup's closure makes for a bound: none unless it is a tag
Lookup(which, b, r) == IF is_tag(b) THEN <<<<which, b.sha, r>>>> ELSE <<>>

\* run: fixup_bounds(&args.access, &mut args.start, &mut args.end)?
FixupBounds ==
    /\ pc = "fixup_bounds"
    /\ IF ~fixup_enabled(start, end)
       THEN /\ pc' = "check_bounds"
            /\ UNCHANGED <<start, end, exit, err, asked>>
       ELSE \E r1 \in BoundToDate(start), r2 \in BoundToDate(end) :
              IF r1 = Nil
              THEN /\ Fail("bound_to_date failed")
                   /\ asked' = Lookup("start", start, r1)
                   /\ UNCHANGED <<start, end>>
              ELSE IF r2 = Nil
              THEN /\ Fail("bound_to_date failed")
                   /\ asked' = Lookup("start", start, r1) \o Lookup("end", end, r2)
                   /\ start' = fixup(start, Get(r1))
                   /\ end' = end
              ELSE /\ start' = fixup(start, Get(r1))
                   /\ end' = fixup(end, Get(r2))
                   /\ asked' = Lookup("start", start, r1) \o Lookup("end", end, r2)
                   /\ pc' = "check_bounds"
                   /\ UNCHANGED <<exit, err>>
    /\ UNCHANGED <<classVars, optVars, is_commit, scanVars, iterVars, bisVars,
                   probeVars, ciVars, histVars, commits, printed, onDisk, meta,
                   final_report>>

\* Bound::as_commit, the download having succeeded
as_commit(b) == IF IsCommit(b) THEN b ELSE CommitBound(ManifestSha(b.date))

\* run: Config::from_args(args)?
FromArgs ==
    /\ pc = "from_args"
    /\ \E rustup_ok \in BOOLEAN, dl1 \in BOOLEAN, dl2 \in BOOLEAN :
         LET kinds == bound_kinds(start, end) IN
         IF ~rustup_ok
         THEN /\ Fail("rustup toolchains directory")
              /\ UNCHANGED <<start, end, is_commit>>
         ELSE IF kinds = "mixed"
         THEN /\ Fail("cannot take different types of bounds for start/end")
              /\ UNCHANGED <<start, end, is_commit>>
         ELSE IF kinds = "date" /\ by_commit
         THEN IF IsNone(start) \/ IsNone(end)
              THEN /\ Panic("unreachable")
                   /\ UNCHANGED <<start, end, is_commit>>
              ELSE IF ~dl1
              THEN /\ Fail("download failed")
                   /\ UNCHANGED <<start, end, is_commit>>
              ELSE IF ~dl2
              THEN /\ Fail("download failed")
                   /\ start' = as_commit(start)
                   /\ UNCHANGED <<end, is_commit>>
              ELSE /\ start' = as_commit(start)
                   /\ end' = as_commit(end)
                   /\ is_commit' = config_is_commit(by_commit, kinds)
                   /\ pc' = "dispatch"
                   /\ UNCHANGED <<exit, err>>
         ELSE /\ is_commit' = config_is_commit(by_commit, kinds)
              /\ pc' = "dispatch"
              /\ UNCHANGED <<start, end, exit, err>>
    /\ UNCHANGED <<classVars, optVars, scanVars, iterVars, bisVars, probeVars,
                   ciVars, histVars>>
    /\ UNCHANGED auxVars

\* run: cfg.install(bound), when --install was given
InstallOnly ==
    /\ pc = "dispatch"
    /\ ~IsNone(install)
    /\ \E r \in IF IsCommit(install)
                THEN {"ok", "commit lookup failed", "install failed"}
                ELSE {"ok", "install failed"} :
         /\ everNightly' = (everNightly \/ (IsDate(install) /\ r # "commit lookup failed"))
         /\ everCi' = (everCi \/ (IsCommit(install) /\ r # "commit lookup failed"))
         /\ onDisk' = IF r = "ok"
                      THEN onDisk \cup {IF IsDate(install) THEN Nightly(install.date)
                                          ELSE Ci(Resolve(install.sha))}
                      ELSE onDisk
         /\ IF r = "ok"
            THEN /\ pc' = "done"
                 /\ exit' = "ok"
                 /\ err' = err
            ELSE Fail(r)
    /\ UNCHANGED <<classVars, optVars, cfgVars, scanVars, iterVars, bisVars,
                   probeVars, ciVars, lastNoTc, lastYesTc>>
    /\ UNCHANGED <<commits, printed, asked, meta, final_report>>

\* ------------------------------------------------------ install_and_test
\* what the installer and the test command may answer; a stand-alone
\* bisector run (kstar set) has a predicate that is conclusive and monotone
InstallResults == IF kstar = Nil THEN {"ok", "notfound", "error"} ELSE {"ok"}

TestOutcomes ==
    IF kstar = Nil THEN {"Baseline", "Regressed"}
    ELSE {IF idx >= Get(kstar) THEN "Regressed" ELSE "Baseline"}

\* what fs::symlink_metadata(&toolchain_dir) may answer: a symlink, a
\* junction (Windows builds), another kind of file, or an error; it is asked
\* only with --preserve
Metadata == IF preserve THEN {"symlink", "junction", "dir", "err"} ELSE {"none"}

remove_toolchain_never(disk, t, keep, m) == disk

remove_toolchain_always(disk, t, keep, m) == disk \ {t}

\* remove_toolchain: with --preserve only a linked toolchain is removed; the
\* result is what is left in the toolchains directory
remove_toolchain(disk, t, keep, m) ==
    IF keep /\ m \notin {"symlink", "junction"} THEN disk ELSE disk \ {t}

\* t.install(&self.client, dl_spec): a failed install may leave a partial
\* install of the toolchain behind; on failure the error is what
\* install_and_test returns, after remove_toolchain; print_results calls
\* t.remove instead
Install ==
    /\ stage = "call"
    /\ \E io \in InstallResults, m \in Metadata, partial \in BOOLEAN :
         /\ stage' = IF io = "ok" THEN "test" ELSE "ret"
         /\ verdict' = IF io = "ok" THEN "none"
                       ELSE IF io = "notfound" THEN "NotFound" ELSE "Error"
         /\ onDisk' = IF io = "ok" THEN onDisk \cup {tc}
                      ELSE IF pc = "reprobe" THEN onDisk \ {tc}
                      ELSE remove_toolchain(IF partial THEN onDisk \cup {tc} ELSE onDisk,
                                            tc, preserve, m)
         /\ meta' = IF io = "ok" \/ pc = "reprobe" THEN "none" ELSE m
    /\ everNightly' = (everNightly \/ tc[1] = "nightly")
    /\ everCi' = (everCi \/ tc[1] = "ci")
    /\ UNCHANGED <<tc, classVars, optVars, cfgVars, endVars, scanVars, iterVars,
                   bisVars, ciVars, lastNoTc, lastYesTc, commits, printed, asked,
                   final_report>>

\* t.test(self), the verdict, and the removal of the toolchain
Test ==
    /\ stage = "test"
    /\ \E o \in TestOutcomes, m \in Metadata :
         /\ verdict' = satisfies(o)
         /\ lastNoTc' = IF satisfies(o) = "No" THEN tc ELSE lastNoTc
         /\ lastYesTc' = IF satisfies(o) = "Yes" THEN tc ELSE lastYesTc
         /\ onDisk' = remove_toolchain(onDisk, tc, preserve, m)
         /\ meta' = m
    /\ stage' = "ret"
    /\ UNCHANGED <<tc, classVars, optVars, cfgVars, endVars, scanVars, iterVars,
                   bisVars, ciVars, everNightly, everCi, commits, printed, asked,
                   final_report>>

\* the next probe is issued at control point p for toolchain t
Probe(p, t) ==
    /\ pc' = p
    /\ tc' = t
    /\ stage' = "call"
    /\ verdict' = "none"
    /\ UNCHANGED <<exit, err>>

\* an error ends the run at the return of a probe
FailAfterProbe(msg) ==
    /\ Fail(msg)
    /\ stage' = "idle"
    /\ UNCHANGED <<tc, verdict>>

\* ------------------------------------------------------- bisect_nightlies
\* what Toolchain::default_nightly() may answer: no default nightly, or its
\* date, which is that of a recent nightly or of an old one
DefaultNightlies == {Nil, Some(Today - 2), Some(EndAt)}

previous_date_same(date) == date

previous_date_two(date) == date - 2

\* date.pred()
previous_date(date) == date - 1

\* the head of the while loop: probe nightly_date, or leave the loop with
\* first_success still None
NoNightlyError == "could not find a nightly that built"

scan_continues_inclusive(nd) == nd >= EndAt

\* while nightly_date > end_at
scan_continues(nd) == nd > EndAt

ScanLoop(nd) ==
    IF scan_continues(nd)
    THEN Probe("scan", Nightly(nd))
    ELSE FailAfterProbe(NoNightlyError)

AltError == "cannot bisect nightlies with --alt"

nightlies_bail_alt_allowed(a, hs, nd, lf, current) ==
    IF hs /\ date_is_future(nd, current)
    THEN "start date must be on or before the current date"
    ELSE IF date_is_future(lf, current)
    THEN "end date must be on or before the current date"
    ELSE "ok"

\* the bails of bisect_nightlies before its loop: "ok", or the message
nightlies_bail(a, hs, nd, lf, current) ==
    IF a THEN AltError
    ELSE IF hs /\ date_is_future(nd, current)
    THEN "start date must be on or before the current date"
    ELSE IF date_is_future(lf, current)
    THEN "end date must be on or before the current date"
    ELSE "ok"

\* Config::bisect (not is_commit): bisect_nightlies up to the first probe
BisectNightlies ==
    /\ pc = "dispatch"
    /\ IsNone(install)
    /\ ~is_commit
    /\ \E dn \in DefaultNightlies :
       LET nd == get_start_date(start, end, dn, today)
           lf == get_end_date(end, dn, today)
           hs == ~IsNone(start)
       IN
       IF nightlies_bail(alt, hs, nd, lf, today) # "ok"
       THEN /\ Fail(nightlies_bail(alt, hs, nd, lf, today))
            /\ UNCHANGED <<scanVars, iterVars, probeVars>>
       ELSE /\ nightly_date' = nd
            /\ last_failure' = lf
            /\ first_success' = Nil
            /\ has_start' = hs
            /\ iter_start' = nd
            /\ iter_cur' = nd
            /\ UNCHANGED <<iter_n, iter_ret>>
            /\ ScanLoop(nd)
    /\ UNCHANGED <<classVars, optVars, cfgVars, bisVars, ciVars, lastNoTc,
                   lastYesTc, everNightly, everCi>>
    /\ UNCHANGED auxVars

\* least_satisfying is entered for the sequence seq
StartBisector(ph, seq) ==
    /\ phase' = ph
    /\ toolchains' = seq
    /\ lo' = 0
    /\ hi' = Len(seq)
    /\ tried' = {}
    /\ best' = Nil
    /\ retry' = FALSE
    /\ idx' = 0
    /\ found' = Nil
    /\ pc' = "bisect"
    /\ stage' = "idle"
    /\ verdict' = "none"
    /\ UNCHANGED <<tc, exit, err, kstar>>

\* the match on install_and_test's result inside the while loop
ScanReturn ==
    /\ pc = "scan"
    /\ stage = "ret"
    /\ IF verdict = "No"
       THEN /\ first_success' = Some(nightly_date)
            /\ Probe("end_probe", Nightly(last_failure))
            /\ UNCHANGED <<nightly_date, last_failure, has_start, iterVars>>
       ELSE IF verdict = "Yes"
       THEN IF has_start
            THEN /\ FailAfterProbe("the start of the range must not reproduce the regression")
                 /\ UNCHANGED <<scanVars, iterVars>>
            ELSE /\ last_failure' = nightly_date
                 /\ nightly_date' = NightlyFinderIter_next(iter_start, iter_cur)
                 /\ iter_cur' = nightly_date'
                 /\ iter_ret' = Some(nightly_date')
                 /\ iter_n' = iter_n + 1
                 /\ UNCHANGED <<first_success, has_start, iter_start>>
                 /\ ScanLoop(nightly_date')
       ELSE IF verdict = "NotFound"
       THEN /\ nightly_date' = previous_date(nightly_date)
            /\ UNCHANGED <<last_failure, first_success, has_start, iterVars>>
            /\ IF has_start
               THEN FailAfterProbe("could not find the nightly")
               ELSE ScanLoop(nightly_date')
       ELSE /\ FailAfterProbe("install failed")
            /\ UNCHANGED <<scanVars, iterVars>>
    /\ UNCHANGED <<classVars, optVars, cfgVars, bisVars, ciVars, lastNoTc,
                   lastYesTc, everNightly, everCi>>
    /\ UNCHANGED auxVars

\* the check of the end of the range, toolchains_between, and the call of
\* bisect_to_regression
EndProbeReturn ==
    /\ pc = "end_probe"
    /\ stage = "ret"
    /\ IF verdict \in {"NotFound", "Error"}
       THEN /\ FailAfterProbe("install failed")
            /\ UNCHANGED bisVars
       ELSE IF verdict = "No"
       THEN /\ FailAfterProbe("the end of the range does not reproduce the regression")
            /\ UNCHANGED bisVars
       ELSE StartBisector("nightly", toolchains_between(Get(first_success), last_failure))
    /\ UNCHANGED <<classVars, optVars, cfgVars, scanVars, iterVars, ciVars, histVars>>
    /\ UNCHANGED auxVars

\* --------------------------------------------------- bisect_to_regression
\* least_satisfying: return, or choose the next index and call the predicate
BisectStep ==
    /\ pc = "bisect"
    /\ stage = "idle"
    /\ IF BisectorDone(lo, hi, tried, retry)
       THEN /\ found' = Some(BestCandidate(lo, best))
            /\ pc' = "print"
            /\ UNCHANGED <<exit, err>>
            \* the locals of least_satisfying and of its caller end here
            /\ lo' = 0
            /\ hi' = 0
            /\ tried' = {}
            /\ best' = Nil
            /\ retry' = FALSE
            /\ idx' = 0
            /\ tc' = Nil
            /\ verdict' = "none"
            /\ stage' = "idle"
            /\ nightly_date' = 0
            /\ last_failure' = 0
            /\ first_success' = Nil
            /\ has_start' = FALSE
            /\ iter_start' = 0
            /\ iter_cur' = 0
            /\ iter_n' = 0
            /\ iter_ret' = Nil
       ELSE /\ idx' = NextProbe(lo, hi, tried, retry)
            /\ Probe("bisect", toolchains[idx' + 1])
            /\ UNCHANGED <<found, lo, hi, tried, best, retry, scanVars, iterVars>>
    /\ UNCHANGED <<phase, toolchains, kstar, classVars, optVars, cfgVars, ciVars,
                   histVars>>
    /\ UNCHANGED auxVars

\* least_satisfying: the verdict of the predicate narrows the interval
BisectReturn ==
    /\ pc = "bisect"
    /\ stage = "ret"
    /\ LET r == unwrap_or_unknown(verdict) IN
         /\ tried' = tried \cup {idx}
         /\ hi' = IF r = "Yes" THEN narrow_yes(hi, idx) ELSE hi
         /\ lo' = IF r = "No" THEN narrow_no(lo, idx) ELSE lo
         /\ best' = IF r = "Yes" THEN Some(idx) ELSE best
         /\ retry' = (r = "Unknown")
    /\ stage' = "idle"
    /\ UNCHANGED <<phase, toolchains, idx, found, kstar, tc, verdict, endVars,
                   classVars, optVars, cfgVars, scanVars, iterVars, ciVars, histVars>>
    /\ UNCHANGED auxVars

\* ------------------------------------------------------------ print_results
\* what print_results writes at its end: the "Regression in ..." report
Report(ph) == <<ph, "Regression in">>

\* what print_results writes when the re-probe does not confirm
NotFound(ph) == <<ph, "The regression was not found">>

reprobe_confirms_unless_no(r) == r # "No"

\* print_results' match on the result of the re-probe: only Yes goes on to
\* the report
reprobe_confirms(r) == r = "Yes"

\* print_results up to the re-probe of the last toolchain, or to its end
PrintResults ==
    /\ pc = "print"
    /\ IF Len(toolchains) = 0
       THEN /\ Panic("searched_range: unwrap of None")
            /\ UNCHANGED <<probeVars, printed>>
       ELSE IF Get(found) >= Len(toolchains)
       THEN /\ Panic("index out of bounds")
            /\ UNCHANGED <<probeVars, printed>>
       ELSE IF toolchains[Get(found) + 1] = toolchains[Len(toolchains)]
       THEN /\ Probe("reprobe", toolchains[Get(found) + 1])
            /\ UNCHANGED printed
       ELSE /\ pc' = "after_print"
            /\ printed' = Append(printed, Report(phase))
            /\ UNCHANGED <<exit, err, probeVars>>
    /\ UNCHANGED <<classVars, optVars, cfgVars, scanVars, iterVars, bisVars,
                   ciVars, histVars, commits, onDisk, asked, meta, final_report>>

\* print_results after the re-probe
ReprobeReturn ==
    /\ pc = "reprobe"
    /\ stage = "ret"
    /\ pc' = "after_print"
    /\ stage' = "idle"
    /\ printed' = Append(printed, IF reprobe_confirms(unwrap_or_unknown(verdict))
                                   THEN Report(phase) ELSE NotFound(phase))
    /\ UNCHANGED <<exit, err, tc, verdict, classVars, optVars, cfgVars, scanVars,
                   iterVars, bisVars, ciVars, histVars, commits, onDisk, asked,
                   meta, final_report>>

\* ------------------------------------------------------------ Config::bisect
\* Config::bisect after print_results: the end of a CI bisection, with
\* print_final_report when it followed a nightly bisection, or the step from
\* the nightly bisection to the CI bisection
BisectContinue ==
    /\ pc = "after_print"
    /\ IF phase = "ci"
       THEN /\ pc' = "done"
            /\ exit' = "ok"
            /\ err' = err
            /\ final_report' = (nightly_boundary # Nil)
            /\ UNCHANGED ciVars
       ELSE \E dl1 \in BOOLEAN, dl2 \in BOOLEAN :
              LET date == toolchains[Get(found) + 1][2] IN
              IF ~(dl1 /\ dl2)
              THEN /\ Fail("download failed")
                   /\ UNCHANGED <<ciVars, final_report>>
              ELSE /\ ci_start' = ManifestSha(previous_date(date))
                   /\ ci_end' = ManifestSha(date)
                   /\ nightly_boundary' = Some(date)
                   /\ pc' = "ci_via"
                   /\ UNCHANGED <<exit, err, final_report>>
    /\ UNCHANGED <<classVars, optVars, cfgVars, scanVars, iterVars, bisVars,
                   probeVars, histVars, commits, printed, onDisk, asked, meta>>

\* Config::bisect (is_commit): bisect_ci
BisectCi ==
    /\ pc = "dispatch"
    /\ IsNone(install)
    /\ is_commit
    /\ ci_start' = IF IsCommit(start) THEN CommitSha(start) ELSE EPOCH_COMMIT
    /\ ci_end' = IF IsCommit(end) THEN CommitSha(end) ELSE OriginMaster
    /\ pc' = "ci_via"
    /\ UNCHANGED <<nightly_boundary, exit, err, classVars, optVars, cfgVars, scanVars,
                   iterVars, bisVars, probeVars, histVars>>
    /\ UNCHANGED auxVars

\* the bail of bisect_ci_in_commits when no commit is recent enough
RetentionError == "no CI builds available between start and end within last 167 days"

\* bisect_ci_via: the accessor's answers and the assertions on the list
BisectCiVia ==
    /\ pc = "ci_via"
    /\ \E answer \in {"ok", "commit lookup failed", "commits lookup failed"},
          answered \in CommitLists(Resolve(ci_end)) :
         LET end_sha == Resolve(ci_end) IN
         IF answer # "ok"
         THEN /\ Fail(answer)
              /\ UNCHANGED commits
         ELSE /\ commits' = answered
              /\ IF Len(answered) = 0 \/ answered[Len(answered)].sha # end_sha
                    \/ ~sorted_by_date(answered)
                 THEN Panic(IF Len(answered) = 0 THEN "at least one commit"
                            ELSE IF answered[Len(answered)].sha # end_sha
                            THEN "assert_eq: last commit is not end_sha"
                            ELSE "commits must chronologically ordered")
                 ELSE /\ pc' = "ci_in_commits"
                      /\ UNCHANGED <<exit, err>>
    /\ UNCHANGED <<bisVars, probeVars, classVars, optVars, cfgVars, scanVars,
                   iterVars, ciVars, histVars, printed, onDisk, asked, meta,
                   final_report>>

\* bisect_ci_in_commits up to the probe of the first commit
BisectCiInCommits ==
    /\ pc = "ci_in_commits"
    /\ LET end_sha == Resolve(ci_end)
           kept == retained(commits, today)
       IN
         /\ commits' = kept
         /\ IF Len(kept) = 0
            THEN /\ Fail(RetentionError)
                 /\ UNCHANGED <<phase, toolchains, probeVars>>
            ELSE IF end_sha # OriginMaster /\ ~StartsWith(kept[Len(kept)].sha, end_sha)
            THEN /\ Fail("expected to end with end")
                 /\ UNCHANGED <<phase, toolchains, probeVars>>
            ELSE /\ phase' = "ci"
                 /\ toolchains' = [i \in 1..Len(kept) |-> Ci(kept[i].sha)]
                 /\ Probe("ci_start_probe", Ci(kept[1].sha))
    /\ UNCHANGED <<lo, hi, tried, best, retry, idx, found, kstar, classVars, optVars,
                   cfgVars, scanVars, iterVars, ciVars, histVars, printed, onDisk,
                   asked, meta, final_report>>

\* bisect_ci_in_commits: the commit at the start of the range was probed
CiStartReturn ==
    /\ pc = "ci_start_probe"
    /\ stage = "ret"
    /\ IF verdict \in {"NotFound", "Error"}
       THEN FailAfterProbe("install failed")
       ELSE IF verdict = "Yes"
       THEN FailAfterProbe("the commit at the start of the range includes the regression")
       ELSE Probe("ci_end_probe", toolchains[Len(toolchains)])
    /\ UNCHANGED <<classVars, optVars, cfgVars, scanVars, iterVars, bisVars,
                   ciVars, histVars>>
    /\ UNCHANGED auxVars

\* bisect_ci_in_commits: the commit at the end of the range was probed
CiEndReturn ==
    /\ pc = "ci_end_probe"
    /\ stage = "ret"
    /\ IF verdict \in {"NotFound", "Error"}
       THEN /\ FailAfterProbe("install failed")
            /\ UNCHANGED bisVars
       ELSE IF verdict = "No"
       THEN /\ FailAfterProbe("the commit at the end of the range does not reproduce the regression")
            /\ UNCHANGED bisVars
       ELSE StartBisector("ci", toolchains)
    /\ UNCHANGED <<classVars, optVars, cfgVars, scanVars, iterVars, ciVars, histVars>>
    /\ UNCHANGED auxVars

Next ==
    \/ FixupBounds
    \/ CheckBounds
    \/ FromArgs
    \/ InstallOnly
    \/ BisectNightlies
    \/ BisectCi
    \/ Install
    \/ Test
    \/ ScanReturn
    \/ EndProbeReturn
    \/ BisectStep
    \/ BisectReturn
    \/ PrintResults
    \/ ReprobeReturn
    \/ BisectContinue
    \/ BisectCiVia
    \/ BisectCiInCommits
    \/ CiStartReturn
    \/ CiEndReturn

Spec == Init /\ [][Next]_vars

\* ------------------------------------------------- stand-alone bisector runs
\* least_satisfying over n toolchains with the predicate "index >= k"
InitBisect ==
    /\ \E n \in 1..MaxLen, k \in 0..(MaxLen - 1) :
         /\ k < n
         /\ toolchains = toolchains_between(1, n)
         /\ hi = n
         /\ kstar = Some(k)
    /\ phase = "nightly"
    /\ lo = 0
    /\ tried = {}
    /\ best = Nil
    /\ retry = FALSE
    /\ idx = 0
    /\ found = Nil
    /\ pc = "bisect"
    /\ exit = "running"
    /\ err = "none"
    /\ today = Today
    /\ start = NoBound
    /\ end = NoBound
    /\ is_commit = FALSE
    /\ ClassIdle /\ OptIdle /\ ScanIdle /\ IterIdle /\ ProbeIdle /\ CiIdle /\ HistIdle /\ AuxIdle

NextBisect == BisectStep \/ Install \/ Test \/ BisectReturn

SpecBisect == InitBisect /\ [][NextBisect]_vars

\* ------------------------------------------------------- coarse scan runs
\* bisect_nightlies from its entry to the end of its while loop, for runs
\* that passed check_bounds and Config::from_args with date or absent bounds
ScanToday == 6 * Today

ScanDates == {EndAt, EndAt + 1, Today - 4, Today, ScanToday}

ScanBounds == {NoBound} \cup {DateBound(d) : d \in ScanDates}

InitScan ==
    /\ today \in {Today, ScanToday}
    /\ start \in ScanBounds
    /\ end \in ScanBounds
    /\ check_bounds(start, end, today) = "ok"
    /\ optStart = start
    /\ optEnd = end
    /\ by_commit = FALSE
    /\ install = NoBound
    /\ alt = FALSE
    /\ preserve = FALSE
    /\ is_commit = FALSE
    /\ pc = "dispatch"
    /\ exit = "running"
    /\ err = "none"
    /\ kstar = Nil
    /\ ClassIdle /\ ScanIdle /\ IterIdle /\ BisIdle /\ ProbeIdle /\ CiIdle /\ HistIdle /\ AuxIdle

NextScan == BisectNightlies \/ Install \/ Test \/ ScanReturn

\* every step of the sequential program is taken in the end: an install and
\* a test return
SpecScan == InitScan /\ [][NextScan]_vars /\ WF_vars(NextScan)

\* ---------------------------------------------------------------- properties
Range(s) == {s[i] : i \in 1..Len(s)}

\* C1: for every regression mode, exit status and stderr, the outcome that
\* default_outcome_of_output returns is the one of the table: ErrorStatus is
\* Regressed iff the status is failure, SuccessStatus iff it is success,
\* IceAlone iff stderr holds one of the two ICE markers, NotIce iff it holds
\* none, and NonCleanError is Baseline iff the status is failure and stderr
\* holds no ICE marker.
C1_ClassifierTable ==
    outcome # "none" =>
        LET ice == IceMarker \in Range(stderr) \/ OverflowMarker \in Range(stderr) IN
        /\ outcome \in {"Baseline", "Regressed"}
        /\ regress = "ErrorStatus" => (outcome = "Regressed" <=> ~success)
        /\ regress = "SuccessStatus" => (outcome = "Regressed" <=> success)
        /\ regress = "IceAlone" => (outcome = "Regressed" <=> ice)
        /\ regress = "NotIce" => (outcome = "Regressed" <=> ~ice)
        /\ regress = "NonCleanError" => (outcome = "Baseline" <=> (~success /\ ~ice))

C1_Witness ==
    /\ outcome = "Regressed"
    /\ regress = "NonCleanError"
    /\ ~success
    /\ stderr = <<"warning: unused variable", OverflowMarker>>

\* C2: a pair of date bounds passes check_bounds if and only if start <= end,
\* start <= today and end <= today.
C2_CheckBoundsIff ==
    (pc # "check_bounds" /\ IsDate(start) /\ IsDate(end)) =>
        ((pc = "from_args" /\ exit = "running")
            <=> (start.date <= end.date /\ start.date <= today /\ end.date <= today))

C2_Witness ==
    /\ pc = "from_args"
    /\ start = DateBound(today - 1)
    /\ end = DateBound(today - 1)

\* C3: the k-th call of NightlyFinderIter::next returns Some(date) with date
\* 2, 4, 6, 8, 15, 22, 29, 36, 43, 50, 64, 78 days before the start date for
\* k = 1..12 and 14 more days for every later call, and the step is
\* non-decreasing in the distance already covered.
ExpectedOffsets == <<2, 4, 6, 8, 15, 22, 29, 36, 43, 50, 64, 78>>

C3_IteratorOffsets ==
    /\ iter_n > 0 =>
        /\ iter_ret = Some(iter_cur)
        /\ iter_start - iter_cur =
              IF iter_n <= Len(ExpectedOffsets)
              THEN ExpectedOffsets[iter_n]
              ELSE 78 + 14 * (iter_n - Len(ExpectedOffsets))
    /\ \A d1, d2 \in 0..(14 * MaxIterSteps) :
          d1 <= d2 => jump_length(d1) <= jump_length(d2)

C3_Witness ==
    /\ iter_start = TestStartDate
    /\ iter_n = 13
    /\ iter_start - iter_cur = 92

Bisecting == IsNone(install) /\ pc \notin {"fixup_bounds", "check_bounds", "from_args"}

\* --by-commit was given, or the bounds are of commit kind
CiOnlyCase == by_commit \/ bound_kinds(start, end) = "commit"

\* a probe is in progress
Probing == stage \in {"call", "test", "ret"}

\* C5: a bisection installs no nightly toolchain exactly when --by-commit was
\* given or the bounds are of commit kind, and then its CI bisection is
\* entered directly; in every other case a CI bisection comes after the
\* nightly bisection, from the commit of the day before the boundary nightly
\* to the commit of the boundary nightly, and once a CI toolchain was probed
\* every probe is a CI probe.
C5_PhaseSelection ==
    /\ (pc = "dispatch" /\ IsNone(install)) => (is_commit <=> CiOnlyCase)
    /\ (Bisecting /\ CiOnlyCase) => (~everNightly /\ nightly_boundary = Nil)
    /\ (Bisecting /\ (everNightly \/ pc \in {"scan", "end_probe"})) => ~CiOnlyCase
    /\ (Bisecting /\ ~CiOnlyCase /\ (everCi \/ phase = "ci" \/ pc = "ci_via")) =>
            (everNightly /\ nightly_boundary # Nil)
    /\ nightly_boundary # Nil =>
            /\ ci_start = ManifestSha(Get(nightly_boundary) - 1)
            /\ ci_end = ManifestSha(Get(nightly_boundary))
    /\ (pc = "ci_via" /\ phase = "nightly") =>
            nightly_boundary = Some(toolchains[Get(found) + 1][2])
    /\ (Bisecting /\ everCi /\ Probing) => tc[1] = "ci"

C5_Witness ==
    /\ IsNone(install)
    /\ ~by_commit
    /\ optStart = DateBound(Today - 4)
    /\ everNightly
    /\ nightly_boundary = Some(Today - 2)
    /\ ci_start = ManifestSha(Today - 3)
    /\ phase = "ci"
    /\ pc = "bisect"
    /\ stage = "ret"
    /\ tc[1] = "ci"

FutureDate(b) == IsDate(b) /\ b.date > today

\* a supplied date bound lies after today, or both bounds are dates with
\* start after end
BadDates ==
    \/ FutureDate(optStart)
    \/ FutureDate(optEnd)
    \/ (IsDate(optStart) /\ IsDate(optEnd) /\ optStart.date > optEnd.date)

\* C6: in every run whose supplied date bounds are bad (one after today, or
\* start after end) no toolchain install and no probe is ever attempted,
\* and the run ends with an error; with one bound supplied or with both.
C6_FailFast ==
    BadDates =>
        /\ ~everNightly
        /\ ~everCi
        /\ ~Probing
        /\ pc = "done" => exit = "error"

MixedKindsError == "cannot take different types of bounds for start/end"

\* one bound is a date and the other a commit
DateWithCommit ==
    \/ (IsDate(start) /\ IsCommit(end))
    \/ (IsCommit(start) /\ IsDate(end))

\* C7: past Config::from_args, a date bound with a commit bound means that
\* the run has ended with an error without a bisection having started, and
\* the error of the kind check is only ever raised for such a pair: pairs
\* in (date or absent, date or absent) and in (commit or absent, commit or
\* absent) pass it.
C7_KindCheck ==
    /\ (DateWithCommit /\ pc \notin {"fixup_bounds", "check_bounds", "from_args"}) =>
            /\ pc = "done"
            /\ exit = "error"
            /\ ~everNightly /\ ~everCi
            /\ phase = "none" /\ toolchains = <<>> /\ tc = Nil
    /\ err = MixedKindsError => DateWithCommit
    /\ (pc = "dispatch" \/ phase # "none") => ~DateWithCommit

C7_Witness ==
    /\ err = MixedKindsError
    /\ exit = "error"
    /\ start = DateBound(Today - 4)
    /\ end = CommitBound(ShaA)

PureCommit(b) == IsCommit(b) /\ ~is_tag(b)

\* one supplied bound is a pure commit and the other a tag
CommitWithTag ==
    \/ (PureCommit(optStart) /\ is_tag(optEnd))
    \/ (is_tag(optStart) /\ PureCommit(optEnd))

\* one supplied bound is a pure commit and the other a date
CommitWithDate ==
    \/ (PureCommit(optStart) /\ IsDate(optEnd))
    \/ (IsDate(optStart) /\ PureCommit(optEnd))

\* C8 (as the code has it): when one bound is a pure commit and the other a
\* date or a tag, no bound is rewritten and no nightly phase runs; with a tag
\* as the other bound the bisection is the CI bisection, with a date as the
\* other bound the run ends with an error before any bisection.
C8_PureCommitBound ==
    /\ (CommitWithTag \/ CommitWithDate) =>
            /\ start = optStart
            /\ end = optEnd
            /\ IsNone(install) => ~everNightly
            /\ pc \notin {"scan", "end_probe"}
            /\ phase # "nightly"
            /\ nightly_boundary = Nil
    /\ (CommitWithTag /\ IsNone(install) /\ pc = "dispatch") => is_commit
    /\ CommitWithTag => err # MixedKindsError
    /\ CommitWithDate =>
            /\ phase = "none"
            /\ pc \in {"fixup_bounds", "check_bounds", "from_args", "done"}
            /\ pc = "done" => exit = "error"
            /\ ~everCi /\ ~everNightly

C8_Witness ==
    /\ optStart = CommitBound(ShaA)
    /\ optEnd = CommitBound(TagA)
    /\ end = CommitBound(TagA)
    /\ IsNone(install)
    /\ ~by_commit
    /\ phase = "ci"
    /\ everCi
    /\ pc = "bisect"

\* C8 as stated: when one bound is a pure commit and the other a date or a
\* tag, no tag is rewritten and the run goes on to the CI bisection: it is
\* not rejected for the kinds of its bounds.
C8_AsStated ==
    (CommitWithTag \/ CommitWithDate) =>
        /\ start = optStart
        /\ end = optEnd
        /\ IsNone(install) => ~everNightly
        /\ err # MixedKindsError

StartMustNotReproduce == "the start of the range must not reproduce the regression"

\* the coarse scan of a run whose start bound was supplied
PinnedScan == has_start /\ pc = "scan"

BisectorFresh ==
    /\ pc = "bisect"
    /\ stage = "idle"
    /\ tried = {}
    /\ ~retry
    /\ lo = 0
    /\ hi = Len(toolchains)

EndpointError ==
    {"the end of the range does not reproduce the regression",
     "the commit at the start of the range includes the regression",
     "the commit at the end of the range does not reproduce the regression"}

\* C10: in both phases, when the bisector is entered for a sequence, the
\* last No verdict was that of the first element of the sequence and the
\* last Yes verdict that of its last element; a No for the last element, or
\* in the CI phase a Yes for the first, ends the run with an error, the
\* bisector not having been entered for that sequence.
C10_EndpointsProbedFirst ==
    /\ []((BisectorFresh /\ kstar = Nil /\ toolchains # <<>>) =>
            /\ lastNoTc = toolchains[1]
            /\ lastYesTc = toolchains[Len(toolchains)])
    /\ [][(pc \in {"end_probe", "ci_end_probe"} /\ stage = "ret" /\ verdict = "No") =>
            /\ pc' = "done"
            /\ exit' = "error"
            /\ err' \in EndpointError
            /\ UNCHANGED <<lo, hi, tried, idx, tc>>]_vars
    /\ [][(pc = "ci_start_probe" /\ stage = "ret" /\ verdict = "Yes") =>
            /\ pc' = "done"
            /\ exit' = "error"
            /\ err' \in EndpointError
            /\ UNCHANGED <<lo, hi, tried, idx, tc>>]_vars
    /\ [][(pc' = "bisect" /\ pc # "bisect") =>
            /\ pc \in {"end_probe", "ci_end_probe"}
            /\ stage = "ret"
            /\ verdict = "Yes"]_vars

C10_Witness ==
    /\ BisectorFresh
    /\ phase = "ci"
    /\ Len(toolchains) = 2
    /\ lastNoTc = toolchains[1]
    /\ lastYesTc = toolchains[2]
    /\ nightly_boundary # Nil

\* no commit of the list is within the retention window
NoRecentCommit(cs) == \A i \in 1..Len(cs) : today - cs[i].date >= RetentionDays

\* the errors that end a CI bisection after the accessor answered with a list
AfterCommitList ==
    {"at least one commit", "assert_eq: last commit is not end_sha",
     "commits must chronologically ordered", RetentionError,
     "expected to end with end"}

\* C11: every CI toolchain that a bisection installs or hands to the bisector
\* is of a commit authored less than 167 days before today, and a run whose
\* accessor answered with a list that holds no such commit (the empty list
\* included) ends with the retention diagnostic before any CI install.
C11_Retention ==
    /\ phase = "ci" =>
            /\ \A i \in 1..Len(commits) : today - commits[i].date < RetentionDays
            /\ toolchains = [i \in 1..Len(commits) |-> Ci(commits[i].sha)]
    /\ (Bisecting /\ Probing /\ tc[1] = "ci") => tc \in Range(toolchains)
    /\ (pc = "done" /\ err \in AfterCommitList /\ NoRecentCommit(commits)) =>
            /\ exit = "error"
            /\ err = RetentionError
            /\ ~everCi

\* the index that the bisection returned is the last index of its sequence
FoundIsLast == Get(found) + 1 = Len(toolchains)

\* C12: after a bisection the boundary toolchain is probed again, once, if
\* and only if the returned index is the last index of the searched
\* sequence; a re-probe that answers No or fails to install makes
\* print_results write that the regression was not found and not the report;
\* a re-probe that answers Yes, and a boundary that needs no re-probe, make it
\* write the report.
C12_Reprobe ==
    /\ [](pc = "reprobe" =>
            /\ FoundIsLast
            /\ tc = toolchains[Get(found) + 1]
            /\ Probing)
    /\ [][(pc = "print" /\ pc' # "done") =>
            /\ pc' = "reprobe" <=> FoundIsLast
            /\ pc' = "after_print" <=> ~FoundIsLast
            /\ FoundIsLast => (printed' = printed /\ stage' = "call")
            /\ ~FoundIsLast => printed' = Append(printed, Report(phase))]_vars
    /\ [][(pc = "reprobe" /\ stage = "ret") =>
            /\ pc' = "after_print"
            /\ stage' = "idle"
            /\ verdict = "Yes" => printed' = Append(printed, Report(phase))
            /\ verdict \in {"No", "NotFound", "Error"} =>
                    printed' = Append(printed, NotFound(phase))]_vars
    /\ [][pc' = "reprobe" => pc \in {"print", "reprobe"}]_vars
    /\ [][printed' # printed => pc \in {"print", "reprobe"}]_vars

C12_Witness ==
    /\ pc = "after_print"
    /\ phase = "ci"
    /\ FoundIsLast
    /\ Len(toolchains) = 2
    /\ verdict = "NotFound"
    /\ printed = <<Report("nightly"), NotFound("ci")>>

\* C13: a run ends with exit status 0 only if it was an install-only run that
\* completed or the regression of its last bisection was reported; a run
\* whose last bisection wrote that the regression was not found ends with a
\* status other than 0.
C13_ExitStatus ==
    (pc = "done" /\ exit = "ok") =>
        \/ ~IsNone(install)
        \/ (printed # <<>> /\ printed[Len(printed)][2] = "Regression in")

C15_AltNightly ==
    (alt /\ Bisecting /\ ~CiOnlyCase) =>
        /\ pc \in {"dispatch", "done"}
        /\ pc = "done" => exit = "error"
        /\ (pc = "done" /\ ~is_commit /\ err \notin {"rustup toolchains directory", MixedKindsError,
                                                    "bound_to_date failed", "end_before_start",
                                                    "start_in_future", "end_in_future"})
                => err = AltError
        /\ ~everNightly /\ ~everCi
        /\ stage = "idle" /\ tc = Nil /\ onDisk = {}

C15_Witness ==
    /\ alt
    /\ IsNone(install)
    /\ ~by_commit
    /\ optStart = DateBound(Today - 4)
    /\ optEnd = DateBound(Today)
    /\ pc = "done"
    /\ err = AltError

\* a commit bound whose string contains '.'
TagBound(b) == IsCommit(b) /\ "." \in Range(b.sha)

\* absent, a date, or a tag
DateLike(b) == IsNone(b) \/ IsDate(b) \/ TagBound(b)

\* what fixup_bounds made of bound b, given that the accessor was asked for
\* the authored dates in looked
Upgraded(which, b, after, looked) ==
    IF TagBound(b)
    THEN \E i \in 1..Len(looked) :
            /\ looked[i][1] = which
            /\ looked[i][2] = b.sha
            /\ looked[i][3] # Nil
            /\ after = DateBound(Get(looked[i][3]))
    ELSE after = b

\* C18: a fixup_bounds that succeeds on two date-like bounds has replaced
\* every tag bound by the date bound of the authored date that the accessor
\* answered for it and left every other bound as it was; when a bound is a
\* commit string without '.', both bounds are left as they were and the
\* accessor is not asked; nothing else asks the accessor for a tag's date.
C18_FixupFrame ==
    /\ [][(pc = "fixup_bounds" /\ DateLike(start) /\ DateLike(end)
                /\ pc' = "check_bounds") =>
            /\ Upgraded("start", start, start', asked')
            /\ Upgraded("end", end, end', asked')
            /\ Len(asked') = (IF TagBound(start) THEN 1 ELSE 0)
                                + (IF TagBound(end) THEN 1 ELSE 0)]_vars
    /\ [][(pc = "fixup_bounds" /\ ~(DateLike(start) /\ DateLike(end))) =>
            /\ pc' = "check_bounds"
            /\ start' = start
            /\ end' = end
            /\ asked' = <<>>]_vars
    /\ [][(pc = "fixup_bounds" /\ ~TagBound(start)) => start' = start]_vars
    /\ [][(pc = "fixup_bounds" /\ ~TagBound(end)) => end' = end]_vars
    /\ [][asked' # asked => pc = "fixup_bounds"]_vars

C18_Witness ==
    /\ pc = "check_bounds"
    /\ optStart = CommitBound(TagA)
    /\ start = DateBound(Today - 4)
    /\ optEnd = DateBound(Today)
    /\ end = optEnd
    /\ asked = <<<<"start", TagA, Some(Today - 4)>>>>

\* the coarse scan of a run without a supplied start bound
FreeScan == pc = "scan" /\ ~has_start

\* C19: in the coarse scan without a supplied start bound, a not-found
\* install of the nightly of date d leaves last_failure, first_success and
\* the stride iterator as they were, and the next nightly probed is that of
\* d minus one day (there is none when d minus one day is 2015-10-20, where
\* the scan ends).
C19_NotFoundRollback ==
    /\ [](FreeScan => (Probing /\ tc = Nightly(nightly_date) /\ nightly_date > EndAt))
    /\ [][(FreeScan /\ stage = "ret" /\ verdict = "NotFound") =>
            /\ nightly_date' = nightly_date - 1
            /\ UNCHANGED <<last_failure, first_success, iter_start, iter_cur, iter_n,
                           iter_ret>>
            /\ nightly_date - 1 > EndAt =>
                    /\ pc' = "scan"
                    /\ stage' = "call"
                    /\ tc' = Nightly(nightly_date - 1)
            /\ nightly_date - 1 <= EndAt =>
                    /\ pc' = "done"
                    /\ exit' = "error"
                    /\ tc' = tc]_vars

C19_Witness ==
    /\ FreeScan
    /\ stage = "call"
    /\ tc = Nightly(Today - 3)
    /\ verdict = "none"
    /\ iter_cur = Today - 2
    /\ iter_n = 1
    /\ last_failure = Today
    /\ first_success = Nil

\* C20: whenever bisect_nightlies enters the bisector, first_success is
\* strictly earlier than last_failure and the sequence handed over is not
\* empty and holds exactly one nightly per day from first_success to
\* last_failure, in increasing order of date.
C20_NightlyRange ==
    (BisectorFresh /\ phase = "nightly" /\ kstar = Nil) =>
        /\ first_success # Nil
        /\ Get(first_success) < last_failure
        /\ toolchains # <<>>
        /\ toolchains = [i \in 1..(last_failure - Get(first_success) + 1) |->
                            Nightly(Get(first_success) + i - 1)]

\* the bisector is entered for the empty sequence: the nightly given as
\* start is later than the default nightly that stands in for the absent end
C20_EmptyRangeReached ==
    /\ BisectorFresh /\ phase = "nightly" /\ kstar = Nil
    /\ optStart = DateBound(Today) /\ IsNone(optEnd)
    /\ first_success = Some(Today)
    /\ last_failure = Today - 2
    /\ toolchains = <<>>

\* the sequence s without its first k elements, for some k
IsSuffix(s, whole) ==
    \E k \in 0..Len(whole) : s = SubSeq(whole, k + 1, Len(whole))

\* C21: in a CI bisection the last toolchain of the sequence is the resolved
\* end commit, and it is the one the end probe installs: the retention step
\* removes only a prefix of the accessor's list, so what it keeps is empty or
\* ends with the last commit of the list, and a list whose last commit is
\* not the end commit ends the run at once, no probe being issued.
C21_EndCommitLast ==
    /\ [](phase = "ci" =>
            /\ commits # <<>>
            /\ commits[Len(commits)].sha = Resolve(ci_end)
            /\ toolchains[Len(toolchains)] = Ci(Resolve(ci_end)))
    /\ [](pc = "ci_end_probe" => tc = Ci(Resolve(ci_end)))
    /\ [][pc = "ci_in_commits" =>
            /\ IsSuffix(commits', commits)
            /\ commits' # <<>> => commits'[Len(commits')] = commits[Len(commits)]]_vars
    /\ [][(pc = "ci_via" /\ commits' # <<>>
                /\ commits'[Len(commits')].sha # Resolve(ci_end)) =>
            /\ pc' = "done"
            /\ exit' # "ok"
            /\ UNCHANGED <<phase, toolchains, stage, tc, everCi>>]_vars

C21_Witness ==
    /\ phase = "ci"
    /\ pc = "ci_end_probe"
    /\ stage = "call"
    /\ Len(commits) = 2
    /\ commits[1].sha = <<"c", "2">>
    /\ tc = Ci(Resolve(ci_end))
    /\ ci_end = OriginMaster

\* the toolchain directory is a symlink or a junction
IsLink(m) == m \in {"symlink", "junction"}

InstallFailed ==
    /\ pc \in {"bisect", "reprobe"}
    /\ stage = "ret"
    /\ verdict \in {"NotFound", "Error"}

\* C23: when the install of a probe issued by the bisector or of the final
\* re-probe has failed, the toolchain of that probe, partly installed or
\* not, is not in the toolchains directory when the probe returns, and the
\* verdict of the probe is Unknown; with --preserve and without it.
C23_FailedInstallCleanup ==
    InstallFailed =>
        /\ tc \notin onDisk
        /\ unwrap_or_unknown(verdict) = "Unknown"

\* a bisector probe with --preserve whose install failed and left the
\* toolchain's directory, which is not a link, in the toolchains directory
C23_PartialInstallKept ==
    /\ InstallFailed
    /\ preserve
    /\ pc = "bisect"
    /\ meta = "dir"
    /\ tc \in onDisk
    /\ lastYesTc # tc
    /\ lastNoTc # tc

\* the verdicts that stand for an Err of install_and_test
InstallErrors == {"NotFound", "Error"}

\* the probes outside the bisector whose install error is propagated with ?
\* or return Err
EndpointProbe == pc \in {"scan", "end_probe", "ci_start_probe", "ci_end_probe"}

\* C24 (as the code has it): an install error of a probe issued by the
\* bisector counts as the verdict Unknown and the bisection goes on with
\* its interval unchanged; an install error of the final re-probe counts as
\* Unknown too and the run goes on after the not-found message; an install
\* error in the coarse scan (other than not-found without a supplied start),
\* in the phase-one end probe or in the CI start or end probe ends the run
\* with an error, and so does a failed install of an install-only run; a run
\* that has ended issues no probe.
C24_InstallErrorPolicy ==
    /\ [][(pc = "bisect" /\ stage = "ret" /\ verdict \in InstallErrors) =>
            /\ pc' = "bisect"
            /\ exit' = "running"
            /\ stage' = "idle"
            /\ retry'
            /\ tried' = tried \cup {idx}
            /\ UNCHANGED <<lo, hi, best, found, toolchains>>]_vars
    /\ [][(pc = "reprobe" /\ stage = "ret" /\ verdict \in InstallErrors) =>
            /\ pc' = "after_print"
            /\ exit' = "running"
            /\ printed' = Append(printed, NotFound(phase))]_vars
    /\ [][(EndpointProbe /\ stage = "ret" /\ verdict \in InstallErrors
                /\ ~(FreeScan /\ verdict = "NotFound")) =>
            /\ pc' = "done"
            /\ exit' = "error"
            /\ stage' = "idle"
            /\ UNCHANGED <<tc, onDisk, everNightly, everCi>>]_vars
    /\ [][(pc = "dispatch" /\ ~IsNone(install)) =>
            /\ pc' = "done"
            /\ stage' = "idle"
            /\ exit' = "error" <=> onDisk' = onDisk
            /\ exit' = "ok" <=> onDisk' # onDisk]_vars
    /\ [](pc = "done" => stage = "idle")

C24_Witness ==
    /\ pc = "bisect"
    /\ phase = "nightly"
    /\ stage = "idle"
    /\ verdict = "Error"
    /\ retry
    /\ idx \in tried
    /\ exit = "running"
    /\ hi - lo > 1

\* C24 as stated: a run that went on after the failed install of a probe is
\* in its bisector, which had issued the probe.
C24_AsStated ==
    (verdict \in InstallErrors /\ stage = "idle" /\ exit = "running") => pc = "bisect"

\* a nightly toolchain is being installed or tested by a bisection
NightlyProbe == Bisecting /\ Probing /\ tc[1] = "nightly"

\* the head of the scan loop is evaluated for a date on or before 2015-10-20
\* after a probe of the scan
ScanExhausted ==
    /\ FreeScan
    /\ stage = "ret"
    /\ verdict \in {"Yes", "NotFound"}
    /\ nightly_date' <= EndAt

NightlyNotFound == NotFound("nightly") \in Range(printed)

\* C26: in a run of two phases, once print_results has written for the
\* nightly bisection that the regression was not found, no CI bisection is
\* started and no final report is written; a final report is written only
\* after both bisections have written their "Regression in" report.
C26_NotFoundStopsRun ==
    /\ NightlyNotFound =>
            /\ pc \in {"after_print", "done"}
            /\ phase = "nightly"
            /\ ~everCi
            /\ nightly_boundary = Nil
            /\ ~final_report
    /\ final_report => printed = <<Report("nightly"), Report("ci")>>

\* the final report was written although print_results wrote for both
\* bisections that the regression was not found
C26_ReportAfterNotFound ==
    /\ final_report
    /\ pc = "done"
    /\ exit = "ok"
    /\ printed = <<NotFound("nightly"), NotFound("ci")>>

\* C27: in the coarse scan without a supplied start bound, the nightly that
\* the scan probes next is dated earlier than the one it has just probed,
\* whatever the outcomes were, so that the scan probes no nightly twice.
C27_ScanDatesDecrease ==
    [][(FreeScan /\ stage = "ret" /\ pc' = "scan") => tc'[2] < tc[2]]_vars

\* the scan probes again the nightly that has just answered Yes: two
\* nightlies before it were missing, and the stride iterator, which the two
\* roll-backs left alone, answers its date
C27_SameNightlyTwice ==
    /\ FreeScan
    /\ stage = "call"
    /\ iter_start = Today
    /\ iter_n = 2
    /\ iter_cur = Today - 4
    /\ tc = Nightly(Today - 4)
    /\ last_failure = Today - 4
    /\ lastYesTc = Nightly(Today - 4)

\* a supplied date, or no bound
DateOrAbsent(b) == IsDate(b) \/ IsNone(b)

\* what --by-commit makes of a bound that is a date or absent
CommitOf(b) == IF IsDate(b) THEN CommitBound(ManifestSha(b.date)) ELSE b

\* C28: with --by-commit and bounds that are dates or absent, both, one or
\* none of them supplied, Config::from_args does not abort on its
\* unreachable branch, and the configuration it returns is one of a CI-only
\* bisection in which each supplied date bound is the commit of its nightly.
C28_ByCommitDates ==
    (by_commit /\ DateOrAbsent(optStart) /\ DateOrAbsent(optEnd)) =>
        /\ err # "unreachable"
        /\ pc = "dispatch" =>
                /\ is_commit
                /\ start = CommitOf(optStart)
                /\ end = CommitOf(optEnd)

\* Config::from_args has aborted on unreachable!() for --by-commit with a
\* start date and no end
C28_UnreachableReached ==
    /\ by_commit
    /\ optStart = DateBound(Today - 4)
    /\ IsNone(optEnd)
    /\ pc = "done"
    /\ exit = "panic"
    /\ err = "unreachable"
    /\ start = optStart
    /\ ~everCi

\* the while loop of bisect_nightlies was left
ScanOver ==
    \/ pc = "end_probe" /\ first_success # Nil
    \/ pc = "done" /\ exit = "error"

\* C29: the coarse scan loop terminates for every start date and every
\* sequence of outcomes of its probes: a scan that runs is over in the end,
\* and a scan that is over has set first_success, or has ended the run with
\* an error, which is the error that no nightly that built could be found
\* when the date of the scan came to 2015-10-20 or before.
C29_ScanTerminates ==
    /\ (pc = "scan") ~> ScanOver
    /\ [](pc \in {"dispatch", "scan"} \/ ScanOver)
    /\ [](pc = "end_probe" => first_success = Some(nightly_date))
    /\ []((pc = "done" /\ first_success = Nil /\ nightly_date <= EndAt /\ everNightly
                /\ ~has_start) => err = NoNightlyError)

C29_Witness ==
    /\ pc = "done"
    /\ err = NoNightlyError
    /\ today = ScanToday
    /\ iter_start = ScanToday
    /\ iter_n = 10
    /\ lastYesTc = Nightly(ScanToday - 43)
    /\ nightly_date = EndAt
    /\ tc = Nightly(EndAt + 1)
    /\ verdict = "NotFound"

====
